---- MODULE Spec2Model ----
(***************************************************************************)
(* Model of the GKF knowledge layer: the triple store behind               *)
(* TripleStoreManager, the KnowledgeIntegrator's dual-partition write path *)
(* and confidence blend, and the ReasoningEngine's symbolic queries.       *)
(*                                                                         *)
(* The store is a SPARQL dataset: one unnamed default graph and the two    *)
(* named graphs the Integrator addresses.  RDF terms are tagged tuples so  *)
(* that IRIs, user nodes, interaction nodes and literals never coincide.   *)
(***************************************************************************)
EXTENDS Integers, FiniteSets, Sequences, TLC

\* ------------------------------------------------------------- bounds
MaxClock == 1
MaxWrites == 2
MaxPopularity == 51
MaxEdges == 3

\* ------------------------------------------------------------- RDF terms
Users == {"u1", "u2"}
Entities == {"E1", "E2"}
InteractionTypes == {"course_completion"}

Iri(x) == <<"iri", x>>
Lit(v) == <<"lit", v>>
Var == <<"var">>

\* self.gkf = Namespace("http://gkf.org/ontology/it#"); rdflib's RDF.type
gkf(x) == Iri(x)
RDF_type == Iri("rdf:type")

\* self.data_ns[f"User/{user_id}"]
user_uri(u) == <<"user", u>>

\* self.data_ns[f"interaction_{user_id}_{timestamp}"]: the ID is the pair
\* (user, clock reading) and nothing else
interaction_uri(u, t) == <<"interaction", u, t>>

\* Literal(datetime.now().isoformat(), datatype=XSD.dateTime)
timestamp_literal(t) == <<"dateTime", t>>

foundational_graph_uri == "foundational"
experiential_graph_uri == "experiential"
default_graph == "default"
GraphNames == {default_graph, foundational_graph_uri, experiential_graph_uri}

EmptyStore == [g \in GraphNames |-> {}]

\* ------------------------------------------------------------- entity linking

\* dict[k] = v and del dict[k] on a dict kept as a function.
Put(f, k, v) == [x \in DOMAIN f \cup {k} |-> IF x = k THEN v ELSE f[x]]
Remove(f, k) == [x \in DOMAIN f \ {k} |-> f[x]]

\* Linker names, linker classes and set_linker_config dicts (as sets of pairs).
LinkerNames == {"wikidata", "dbpedia"}
LinkerClasses == {"WikidataLinker", "DBpediaLinker"}
LinkerConfigs == {{<<"timeout", 5>>}}

\* Python's None where a linker is expected, and where a URI is expected.
NoLinker == [id |-> 0, class |-> "", config |-> {}]
NoURI == <<"None", "">>

\* LinkerRegistry.__init__ and _register_default_linkers: the built-in classes
\* are registered, nothing is instantiated or configured. `objects` numbers
\* the linker objects constructed so far, which gives each its identity.
LinkerRegistry ==
    [linkers |-> [n \in {} |-> NoLinker],
     linker_classes |-> [n \in LinkerNames |->
                            IF n = "wikidata" THEN "WikidataLinker" ELSE "DBpediaLinker"],
     configs |-> [n \in {} |-> {}],
     objects |-> 0]

register_linker_class(reg, name, linker_class) ==
    [reg EXCEPT !.linker_classes = Put(@, name, linker_class)]

set_linker_config(reg, name, config) ==
    [reg EXCEPT !.configs = Put(@, name, config)]

\* A faulty variant: the new instance is returned without being stored.
get_linker_uncached(reg, name) ==
    IF name \in DOMAIN reg.linkers
    THEN [registry |-> reg, linker |-> reg.linkers[name]]
    ELSE IF name \in DOMAIN reg.linker_classes
    THEN LET config == IF name \in DOMAIN reg.configs THEN reg.configs[name] ELSE {}
             linker == [id |-> reg.objects + 1, class |-> reg.linker_classes[name],
                        config |-> config]
         IN [registry |-> [reg EXCEPT !.objects = @ + 1], linker |-> linker]
    ELSE [registry |-> reg, linker |-> NoLinker]

\* get_linker(name): the cached instance; or a new instance of the registered
\* class, built with the name's config or {}, and cached; or None.
get_linker(reg, name) ==
    IF name \in DOMAIN reg.linkers
    THEN [registry |-> reg, linker |-> reg.linkers[name]]
    ELSE IF name \in DOMAIN reg.linker_classes
    THEN LET config == IF name \in DOMAIN reg.configs THEN reg.configs[name] ELSE {}
             linker == [id |-> reg.objects + 1, class |-> reg.linker_classes[name],
                        config |-> config]
         IN [registry |-> [reg EXCEPT !.linkers = Put(@, name, linker), !.objects = @ + 1],
             linker |-> linker]
    ELSE [registry |-> reg, linker |-> NoLinker]

unregister_linker(reg, name) ==
    [reg EXCEPT !.linkers = Remove(@, name),
                !.linker_classes = Remove(@, name),
                !.configs = Remove(@, name)]

has_linker(reg, name) == name \in DOMAIN reg.linker_classes \/ name \in DOMAIN reg.linkers

\* linker.link(entity_name) of the built-in linkers: the URI of the best match
\* in the linker's source, or None when there is no match or the request
\* failed (every exception is caught).  found tells which lookups succeed.
link(linker, entity_name, source, found) ==
    IF <<entity_name, source>> \in found THEN <<linker.class, entity_name>> ELSE NoURI

\* A faulty variant: a source whose linker is not available gets no key.
record_link_available(links, source, linker, entity_name, found) ==
    IF linker = NoLinker THEN links
    ELSE Put(links, source, link(linker, entity_name, source, found))

\* The body of link_entity's loop: links[source] = uri, or None without a linker.
record_link(links, source, linker, entity_name, found) ==
    IF linker # NoLinker
    THEN Put(links, source, link(linker, entity_name, source, found))
    ELSE Put(links, source, NoURI)

RECURSIVE link_sources(_, _, _, _, _)
link_sources(reg, entity_name, todo, links, found) ==
    IF todo = <<>> THEN [registry |-> reg, links |-> links]
    ELSE LET g == get_linker(reg, Head(todo))
         IN link_sources(g.registry, entity_name, Tail(todo),
                         record_link(links, Head(todo), g.linker, entity_name, found), found)

\* sources as batch_link_entities receives it: a list, or None.
DefaultSources == <<"wikidata", "dbpedia">>
requested(sources) == IF sources.given THEN sources.list ELSE DefaultSources

\* link_entity(entity_name, sources=sources) with prefer_source at its default.
link_entity(reg, entity_name, sources, found) ==
    LET prefer_source == "wikidata"
        prioritized_sources ==
            <<prefer_source>> \o SelectSeq(requested(sources), LAMBDA s : s # prefer_source)
    IN link_sources(reg, entity_name, prioritized_sources, [s \in {} |-> NoURI], found)

\* batch_link_entities(entity_names, sources): results[entity_name] = link_entity(...)
RECURSIVE batch_link_entities(_, _, _, _, _)
batch_link_entities(reg, todo, sources, results, found) ==
    IF todo = <<>> THEN [registry |-> reg, results |-> results]
    ELSE LET r == link_entity(reg, Head(todo), sources, found)
         IN batch_link_entities(r.registry, Tail(todo), sources,
                                Put(results, Head(todo), r.links), found)

\* ------------------------------------------------------------- state
VARIABLES
    store,      \* the triple store: graph name -> set of triples
    fragment,   \* the caller's rdflib Graph object handed to add_foundational_knowledge
    clock,      \* datetime.now(), at the resolution of timestamp()
    issued,     \* history: interaction ID -> number of accepted calls that created it
    writtenF,   \* history: triples uploaded by add_foundational_knowledge
    writtenE,   \* history: triples uploaded by add_experiential_knowledge
    writes,     \* number of add_* calls made so far
    last,       \* the last call: operation, arguments, outcome
    registry,   \* the global LinkerRegistry: _linkers, _linker_classes, _configs
    handed      \* history: name -> the instance its first get_linker returned
                \* since the name was last unregistered

vars == <<store, fragment, clock, issued, writtenF, writtenE, writes, last, registry, handed>>

\* ------------------------------------------------------------- TripleStoreManager

\* upload_graph(graph, graph_uri): serialises the graph to Turtle and POSTs it
\* to the update endpoint.  graph_uri is never put in the request, so what the
\* store accepts lands in its default graph.  accepted = the HTTP exchange raised
\* no exception.
upload_graph(st, graph, graph_uri, accepted) ==
    IF accepted
    THEN [store |-> [st EXCEPT ![default_graph] = @ \cup graph], success |-> TRUE]
    ELSE [store |-> st, success |-> FALSE]

\* A triple pattern matches a triple when every non-variable position agrees.
Matches(t, pat) == \A i \in 1..3 : pat[i] = Var \/ pat[i] = t[i]

\* The dataset a query sees without a FROM clause (GraphDB: all graphs).
Dataset(st) == UNION {st[g] : g \in GraphNames}

\* SELECT ... FROM <uri>: the query's default graph is exactly that named graph.
FromGraph(st, uri) == st[uri]

\* TripleStoreManager.query: the bindings, or [] when the call raised.
query(solutions, answered) == IF answered THEN solutions ELSE {}

\* ------------------------------------------------------------- KnowledgeIntegrator

\* A faulty variant: tags the classes (graph.objects) instead of the typed subjects.
TagFoundational_objects(graph) ==
    graph \cup {<<t[3], RDF_type, gkf("FoundationalKnowledge")>> :
                    t \in {x \in graph : x[2] = RDF_type}}

\* for subject in graph.subjects(RDF.type, None):
\*     graph.add((subject, RDF.type, self.gkf.FoundationalKnowledge))
TagFoundational(graph) ==
    graph \cup {<<t[1], RDF_type, gkf("FoundationalKnowledge")>> :
                    t \in {x \in graph : x[2] = RDF_type}}

\* add_foundational_knowledge(graph): tags the caller's graph in place, uploads it.
add_foundational_knowledge(st, graph, accepted) ==
    LET tagged == TagFoundational(graph)
        up == upload_graph(st, tagged, foundational_graph_uri, accepted)
    IN [store |-> up.store, success |-> up.success, graph |-> tagged]

\* The graph add_experiential_knowledge builds for one event; now1 and now2 are
\* the two datetime.now() readings (ID, then timestamp triple).
InteractionGraph(u, e, meta, now1, now2) ==
    LET i == interaction_uri(u, now1)
    IN {<<i, RDF_type, gkf("Interaction")>>,
        <<i, RDF_type, gkf("ExperientialKnowledge")>>,
        <<i, gkf("hasUser"), user_uri(u)>>,
        <<i, gkf("relatedTo"), Iri(e)>>,
        <<i, gkf("timestamp"), timestamp_literal(now2)>>}
       \cup {<<i, gkf(kv[1]), Lit(kv[2])>> : kv \in meta}

add_experiential_knowledge(st, u, e, meta, now1, now2, accepted) ==
    LET g == InteractionGraph(u, e, meta, now1, now2)
        up == upload_graph(st, g, experiential_graph_uri, accepted)
    IN [store |-> up.store, success |-> up.success, graph |-> g]

\* A faulty variant: the FROM clause is dropped, the query runs over the whole dataset.
query_foundational_unscoped(st, pat, answered) ==
    query({t \in Dataset(st) : Matches(t, pat)}, answered)

\* SELECT * FROM <foundational> WHERE { pattern }
query_foundational_knowledge(st, pat, answered) ==
    query({t \in FromGraph(st, foundational_graph_uri) : Matches(t, pat)}, answered)

\* SELECT * FROM <experiential> WHERE { pattern }
query_experiential_knowledge(st, pat, answered) ==
    query({t \in FromGraph(st, experiential_graph_uri) : Matches(t, pat)}, answered)

\* { GRAPH <foundational> { pattern } } UNION { GRAPH <experiential> { pattern } }
query_integrated_knowledge(st, pat, answered) ==
    query({t \in st[foundational_graph_uri] : Matches(t, pat)}
          \cup {t \in st[experiential_graph_uri] : Matches(t, pat)}, answered)

\* SELECT (COUNT(?interaction) ...) FROM <experiential>
\* WHERE { ?interaction a gkf:Interaction ; gkf:relatedTo <course_uri> }
get_course_popularity(st, e, answered) ==
    LET g == FromGraph(st, experiential_graph_uri)
        sols == {t[1] : t \in {x \in g : x[2] = gkf("relatedTo") /\ x[3] = Iri(e)
                                        /\ <<x[1], RDF_type, gkf("Interaction")>> \in g}}
    IN IF answered THEN Cardinality(sols) ELSE 0


\* confidence is kept in hundredths: 70 is 0.7, 30 is 0.3, 100 is 1.0, and
\* experiential_count / 100.0 is experiential_count hundredths
FoundationalWeight == 70
ExperientialCap == 30
ConfidenceMax == 100

Min(a, b) == IF a <= b THEN a ELSE b

\* A faulty variant: the experiential share is added without its 0.3 cap.
ConfidenceBlend_uncapped(foundational_exists, experiential_count) ==
    LET c1 == IF foundational_exists THEN FoundationalWeight ELSE 0
    IN Min(c1 + experiential_count, ConfidenceMax)

\* The blend itself, from the two query results.
ConfidenceBlend(foundational_exists, experiential_count) ==
    LET c0 == 0
        c1 == IF foundational_exists THEN c0 + FoundationalWeight ELSE c0
        c2 == IF experiential_count > 0
              THEN c1 + Min(experiential_count, ExperientialCap)
              ELSE c1
    IN Min(c2, ConfidenceMax)

\* calculate_knowledge_confidence(entity_uri): two store round trips
\* ("<entity> ?p ?o" in the foundational graph, then the popularity count).
calculate_knowledge_confidence(st, e, answered1, answered2) ==
    LET foundational_exists ==
            Cardinality(query_foundational_knowledge(st, <<Iri(e), Var, Var>>, answered1)) > 0
        experiential_count == get_course_popularity(st, e, answered2)
    IN ConfidenceBlend(foundational_exists, experiential_count)

\* ------------------------------------------------------------- inputs

\* Triples an authoritative source may hand to add_foundational_knowledge.
FragUniverse ==
    {<<Iri("E1"), RDF_type, gkf("Course")>>,
     <<Iri("E2"), RDF_type, gkf("Skill")>>,
     <<Iri("E2"), gkf("skillName"), Lit(1)>>}

Fragments == SUBSET FragUniverse

\* interaction_data['metadata']: key -> value, as a set of pairs
MetaChoices == {{}, {<<"rating", 5>>}}

\* Patterns handed to the partition-scoped queries.
Patterns ==
    {<<Var, Var, Var>>, <<Iri("E1"), Var, Var>>, <<Var, gkf("relatedTo"), Iri("E1")>>}

NoLast ==
    [op |-> "none", ok |-> TRUE, entity |-> "", node |-> Var,
     input |-> {}, output |-> {}, repeat |-> FALSE, result |-> {}, value |-> 0,
     queries |-> 0, start |-> "", depth |-> 0, status |-> "ok",
     job |-> "", job2 |-> "", current |-> {}, fail |-> <<"none", "">>,
     skill1 |-> "", skill2 |-> "", list |-> <<>>, user_skills |-> <<>>, top_k |-> 0,
     keys |-> {}, uploads |-> <<>>, before |-> [g \in {} |-> {}],
     after |-> [g \in {} |-> {}], foundational_exists |-> FALSE,
     name |-> "", linker |-> NoLinker, entity_names |-> <<>>,
     sources |-> [given |-> FALSE, list |-> <<>>], found |-> {},
     results |-> [n \in {} |-> [s \in {} |-> NoURI]],
     report |-> [common_skills |-> 0, skills_to_acquire |-> {},
                 skill_gap_percentage |-> <<0, 1>>, learning_path |-> <<>>]]

ReadOps ==
    {"queryF", "queryE", "queryI", "popularity", "confidence",
     "infer", "related", "apiRelated", "path", "courses", "career",
     "next", "demand", "similarity", "skill"}

\* A read leaves every variable but `last` as it is, so a read right after a
\* read reaches nothing a single read does not: reads are taken one at a time,
\* each from a state some write (or Init) produced.
FreshRead == last.op \notin ReadOps

\* ------------------------------------------------------------- Integrator actions

Init ==
    /\ store = EmptyStore
    /\ fragment = {}
    /\ clock = 0
    /\ issued = [i \in {} |-> 0]
    /\ writtenF = {}
    /\ writtenE = {}
    /\ writes = 0
    /\ last = NoLast
    /\ registry = LinkerRegistry
    /\ handed = [n \in {} |-> NoLinker]

\* datetime.now() advances
Tick ==
    /\ clock < MaxClock
    /\ clock' = clock + 1
    /\ UNCHANGED <<registry, handed, store, fragment, issued, writtenF, writtenE, writes, last>>

\* add_foundational_knowledge(graph): the caller hands over a new Graph object
\* or the one it passed before; the object is tagged in place whether or not
\* the upload succeeds.
AddFoundational ==
    /\ writes < MaxWrites
    /\ \E graph \in Fragments \cup {fragment}, accepted \in BOOLEAN :
        LET r == add_foundational_knowledge(store, graph, accepted)
        IN /\ store' = r.store
           /\ fragment' = r.graph
           /\ writtenF' = IF r.success THEN writtenF \cup r.graph ELSE writtenF
           /\ last' = [NoLast EXCEPT !.op = "addF", !.ok = r.success,
                                     !.input = graph, !.output = r.graph,
                                     !.repeat = /\ last.op = "addF"
                                                /\ last.ok
                                                /\ graph \in {last.input, last.output}]
    /\ writes' = writes + 1
    /\ UNCHANGED <<registry, handed, clock, issued, writtenE>>

\* add_experiential_knowledge(event): the ID is taken from the first clock
\* reading, the timestamp triple from a second one.
AddExperiential ==
    /\ writes < MaxWrites
    /\ \E u \in Users, itype \in InteractionTypes, e \in Entities,
          meta \in MetaChoices, accepted \in BOOLEAN,
          now2 \in {clock, clock + 1} \cap (0..MaxClock) :
        LET r == add_experiential_knowledge(store, u, e, meta, clock, now2, accepted)
            i == interaction_uri(u, clock)
        IN /\ store' = r.store
           /\ clock' = now2
           /\ writtenE' = IF r.success THEN writtenE \cup r.graph ELSE writtenE
           /\ issued' = IF ~r.success THEN issued
                        ELSE IF i \in DOMAIN issued
                             THEN [issued EXCEPT ![i] = @ + 1]
                             ELSE [x \in DOMAIN issued \cup {i} |->
                                      IF x = i THEN 1 ELSE issued[x]]
           /\ last' = [NoLast EXCEPT !.op = "addE", !.ok = r.success, !.entity = e,
                                     !.node = i, !.output = r.graph]
    /\ writes' = writes + 1
    /\ UNCHANGED <<registry, handed, fragment, writtenF>>

QueryFoundational ==
    /\ FreshRead
    /\ \E pat \in Patterns, answered \in BOOLEAN :
        last' = [NoLast EXCEPT !.op = "queryF", !.ok = answered, !.queries = 1,
                   !.result = query_foundational_knowledge(store, pat, answered)]
    /\ UNCHANGED <<registry, handed, store, fragment, clock, issued, writtenF, writtenE, writes>>

QueryExperiential ==
    /\ FreshRead
    /\ \E pat \in Patterns, answered \in BOOLEAN :
        last' = [NoLast EXCEPT !.op = "queryE", !.ok = answered, !.queries = 1,
                   !.result = query_experiential_knowledge(store, pat, answered)]
    /\ UNCHANGED <<registry, handed, store, fragment, clock, issued, writtenF, writtenE, writes>>

QueryIntegrated ==
    /\ FreshRead
    /\ \E pat \in Patterns, answered \in BOOLEAN :
        last' = [NoLast EXCEPT !.op = "queryI", !.ok = answered, !.queries = 1,
                   !.result = query_integrated_knowledge(store, pat, answered)]
    /\ UNCHANGED <<registry, handed, store, fragment, clock, issued, writtenF, writtenE, writes>>

GetCoursePopularity ==
    /\ FreshRead
    /\ \E e \in Entities, answered \in BOOLEAN :
        last' = [NoLast EXCEPT !.op = "popularity", !.ok = answered, !.entity = e,
                   !.queries = 1, !.value = get_course_popularity(store, e, answered)]
    /\ UNCHANGED <<registry, handed, store, fragment, clock, issued, writtenF, writtenE, writes>>

CalculateKnowledgeConfidence ==
    /\ FreshRead
    /\ \E e \in Entities, a1 \in BOOLEAN, a2 \in BOOLEAN :
        last' = [NoLast EXCEPT !.op = "confidence", !.ok = a1 /\ a2, !.entity = e,
                   !.queries = 2,
                   !.value = calculate_knowledge_confidence(store, e, a1, a2)]
    /\ UNCHANGED <<registry, handed, store, fragment, clock, issued, writtenF, writtenE, writes>>

Next ==
    \/ Tick
    \/ AddFoundational
    \/ AddExperiential
    \/ QueryFoundational
    \/ QueryExperiential
    \/ QueryIntegrated
    \/ GetCoursePopularity
    \/ CalculateKnowledgeConfidence

Spec == Init /\ [][Next]_vars

\* ------------------------------------------------------------- Integrator claims

\* A step that is one add_foundational_knowledge / add_experiential_knowledge call.
AddFStep == writes' = writes + 1 /\ last'.op = "addF"
AddEStep == writes' = writes + 1 /\ last'.op = "addE"

\* Subjects typed gkf:Interaction anywhere in the store, and a node's triples.
InteractionNodes(st) ==
    {t[1] : t \in {x \in Dataset(st) : x[2] = RDF_type /\ x[3] = gkf("Interaction")}}
NodeTriples(st, n) == {t \in Dataset(st) : t[1] = n}

\* C1: partition isolation.  Whatever pattern is asked and whether or not the
\* store answers, query_foundational_knowledge returns no triple that
\* add_experiential_knowledge uploaded, and query_experiential_knowledge returns
\* no triple that add_foundational_knowledge uploaded.
C1_PartitionIsolation ==
    \A pat \in Patterns, answered \in BOOLEAN :
        /\ query_foundational_knowledge(store, pat, answered) \cap writtenE = {}
        /\ query_experiential_knowledge(store, pat, answered) \cap writtenF = {}

\* Both kinds of write have been accepted and a foundational query was answered.
C1_Witness ==
    /\ writtenE # {}
    /\ writtenF # {}
    /\ last.op = "queryF"
    /\ last.ok

\* C2: every triple uploaded through the Integrator sits in exactly one
\* partition: foundational writes in the foundational named graph only,
\* experiential writes in the experiential named graph only, none in the
\* default graph.
C2_ExactlyOnePartition ==
    /\ \A t \in writtenF :
        /\ t \in store[foundational_graph_uri]
        /\ t \notin store[experiential_graph_uri]
        /\ t \notin store[default_graph]
    /\ \A t \in writtenE :
        /\ t \in store[experiential_graph_uri]
        /\ t \notin store[foundational_graph_uri]
        /\ t \notin store[default_graph]

\* C3: idempotence.  When an accepted add_foundational_knowledge call is
\* followed by another accepted call with the identical fragment (the same
\* content, or the same Graph object as the first call left it), the second
\* call changes no graph of the store, the foundational partition included.
C3_FoundationalIdempotent ==
    [][(AddFStep /\ last'.ok /\ last'.repeat) => store' = store]_vars

\* A non-empty typed fragment was uploaded twice in a row.
C3_Witness ==
    /\ last.op = "addF"
    /\ last.ok
    /\ last.repeat
    /\ \E t \in last.input : t[2] = RDF_type
    /\ last.output \subseteq store[default_graph]

\* C4: every created Interaction has an ID no other created Interaction has.
C4_UniqueInteractionIds == \A i \in DOMAIN issued : issued[i] = 1

\* C5: append-only log.  No step changes the triples of an Interaction node
\* that already exists, and none removes the node.
C5_AppendOnly ==
    [][\A n \in InteractionNodes(store) :
            NodeTriples(store', n) = NodeTriples(store, n)]_vars

\* C6: each accepted add_experiential_knowledge for entity E raises
\* get_course_popularity(E) by exactly 1 and leaves every other entity's
\* popularity as it was.
C6_PopularityCounts ==
    [][(AddEStep /\ last'.ok) =>
        \A e \in Entities :
            get_course_popularity(store', e, TRUE) =
                get_course_popularity(store, e, TRUE)
                    + (IF e = last'.entity THEN 1 ELSE 0)]_vars

\* ------------------------------------------------------------- confidence blend

\* Stores the confidence blend is applied to: any foundational graph over these
\* facts, and n recorded interactions about E1 in the experiential graph (plus
\* one about E2, and an untyped relatedTo edge that is no Interaction).
FoundationalFacts ==
    {<<Iri("E1"), RDF_type, gkf("Course")>>,
     <<Iri("E2"), gkf("skillName"), Lit(1)>>}

RecordedInteractions(n) ==
    UNION {{<<interaction_uri("u1", k), RDF_type, gkf("Interaction")>>,
            <<interaction_uri("u1", k), gkf("relatedTo"), Iri("E1")>>} : k \in 1..n}
    \cup {<<interaction_uri("u2", 0), RDF_type, gkf("Interaction")>>,
          <<interaction_uri("u2", 0), gkf("relatedTo"), Iri("E2")>>,
          <<Iri("E2"), gkf("relatedTo"), Iri("E1")>>}

InitConfidence ==
    /\ \E F \in SUBSET FoundationalFacts, n \in 0..MaxPopularity :
        store = [EmptyStore EXCEPT ![foundational_graph_uri] = F,
                                   ![experiential_graph_uri] = RecordedInteractions(n)]
    /\ fragment = {}
    /\ clock = 0
    /\ issued = [i \in {} |-> 0]
    /\ writtenF = {}
    /\ writtenE = {}
    /\ writes = 0
    /\ last = NoLast
    /\ registry = LinkerRegistry
    /\ handed = [n \in {} |-> NoLinker]

NextConfidence ==
    \/ GetCoursePopularity
    \/ CalculateKnowledgeConfidence

SpecConfidence == InitConfidence /\ [][NextConfidence]_vars

\* Some triple of the foundational partition is about e (has e as its subject).
FoundationalPresent(e) == \E t \in store[foundational_graph_uri] : t[1] = Iri(e)

Skills == {"A", "B", "C"}
NameValues == {1, 2}

\* LIMIT 20 of find_related_skills
ResultLimit == 20

\* The (subject, object) pairs of one predicate, as the engine's queries see them
\* (no FROM clause: the whole dataset).
Edges(st, pred) == {<<t[1], t[3]>> : t \in {x \in Dataset(st) : x[2] = pred}}

\* One hop from a set of nodes.
Hop(E, S) == {e[2] : e \in {x \in E : x[1] \in S}}

\* The SPARQL path operator pred+ from a set of nodes: one or more hops.
RECURSIVE Grow(_, _)
Grow(E, R) ==
    LET R2 == R \cup Hop(E, R)
    IN IF R2 = R THEN R ELSE Grow(E, R2)
PathPlus(E, s) == Grow(E, Hop(E, {s}))

\* The path operator pred{1,depth} from a set of nodes: between 1 and depth hops.
RECURSIVE PathUpTo(_, _, _)
PathUpTo(E, S, depth) ==
    IF depth < 1 THEN {}
    ELSE Hop(E, S) \cup PathUpTo(E, Hop(E, S), depth - 1)

\* "?x gkf:skillName ?skillName": one row per (node, name) pair.
NamedRows(st, nodes) ==
    {<<t[1], t[3]>> : t \in {x \in Dataset(st) : x[2] = gkf("skillName") /\ x[1] \in nodes}}

\* The list [row['prereq']['value'] for row in results], as the set of its members;
\* a member occurs once per row that carries it.
Members(rows) == {r[1] : r \in rows}

\* infer_skill_prerequisites(skill_uri):
\*   SELECT DISTINCT ?prereq ?skillName
\*   WHERE { <skill> gkf:prerequisite+ ?prereq . ?prereq gkf:skillName ?skillName }
infer_skill_prerequisites(st, s, answered) ==
    query(NamedRows(st, PathPlus(Edges(st, gkf("prerequisite")), Iri(s))), answered)

\* The subsets of S with exactly k members.
RECURSIVE Choose(_, _)
Choose(S, k) ==
    IF k = 0 THEN {{}}
    ELSE IF Cardinality(S) < k THEN {}
    ELSE LET x == CHOOSE y \in S : TRUE
         IN Choose(S \ {x}, k) \cup {T \cup {x} : T \in Choose(S \ {x}, k - 1)}

\* LIMIT n without ORDER BY: any n of the rows.
Limited(rows, n) ==
    IF Cardinality(rows) <= n THEN {rows}
    ELSE IF 2 * n > Cardinality(rows)
         THEN {rows \ d : d \in Choose(rows, Cardinality(rows) - n)}
         ELSE Choose(rows, n)

\* find_related_skills(skill_uri, depth): no check of depth, one store query
\*   SELECT DISTINCT ?related ?skillName
\*   WHERE { <skill> gkf:relatedTo{1,depth} ?related . ?related gkf:skillName ?skillName }
\*   LIMIT 20
\* The value is the set of results the store may hand back.
find_related_skills(st, s, depth, answered) ==
    {query(rows, answered) :
        rows \in Limited(NamedRows(st, PathUpTo(Edges(st, gkf("relatedTo")), {Iri(s)}, depth)),
                         ResultLimit)}

\* depth: int = Query(2, ge=1, le=5) on the /related route
DepthMin == 1
DepthMax == 5
Depths == (DepthMin - 1)..(DepthMax + 1)

\* A graph of one predicate over Skills with at most MaxEdges edges, each skill
\* carrying no, one or two skillName values.
EdgeGraphs(pred) ==
    {{<<Iri(e[1]), pred, Iri(e[2])>> : e \in E} :
        E \in {X \in SUBSET (Skills \X Skills) : Cardinality(X) <= MaxEdges}}

Namings ==
    {UNION {{<<Iri(k), gkf("skillName"), Lit(v)>> : v \in 1..n[k]} : k \in Skills} :
        n \in [Skills -> {0} \cup NameValues]}

InitGraph(pred) ==
    /\ \E g \in EdgeGraphs(pred), names \in Namings :
        store = [EmptyStore EXCEPT ![default_graph] = g \cup names]
    /\ fragment = {}
    /\ clock = 0
    /\ issued = [i \in {} |-> 0]
    /\ writtenF = {}
    /\ writtenE = {}
    /\ writes = 0
    /\ last = NoLast
    /\ registry = LinkerRegistry
    /\ handed = [n \in {} |-> NoLinker]

InferSkillPrerequisites ==
    /\ FreshRead
    /\ \E s \in Skills, answered \in BOOLEAN :
        last' = [NoLast EXCEPT !.op = "infer", !.ok = answered, !.start = s,
                   !.queries = 1,
                   !.result = infer_skill_prerequisites(store, s, answered)]
    /\ UNCHANGED <<registry, handed, store, fragment, clock, issued, writtenF, writtenE, writes>>

InitPrereq == InitGraph(gkf("prerequisite"))
NextPrereq == InferSkillPrerequisites
SpecPrereq == InitPrereq /\ [][NextPrereq]_vars

\* The same, over stores in which every skill is materialised with exactly one
\* skillName.
InitPrereqNamed ==
    /\ InitPrereq
    /\ \A k \in Skills :
        Cardinality({t \in store[default_graph] :
                        t[1] = Iri(k) /\ t[2] = gkf("skillName")}) = 1
SpecPrereqNamed == InitPrereqNamed /\ [][NextPrereq]_vars

\* ReasoningEngine.find_related_skills called directly.
FindRelatedSkills ==
    /\ FreshRead
    /\ \E s \in Skills, depth \in Depths, answered \in BOOLEAN :
        \E res \in find_related_skills(store, s, depth, answered) :
            last' = [NoLast EXCEPT !.op = "related", !.ok = answered, !.start = s,
                       !.depth = depth, !.queries = 1, !.result = res]
    /\ UNCHANGED <<registry, handed, store, fragment, clock, issued, writtenF, writtenE, writes>>

\* GET /api/skills/{skill_id}/related?depth=: the route's Query(ge=1, le=5)
\* rejects the request (422) before the handler runs; otherwise the handler
\* calls the engine and answers 200.
GetRelatedSkills ==
    /\ FreshRead
    /\ \E s \in Skills, depth \in Depths, answered \in BOOLEAN :
        IF depth < DepthMin \/ depth > DepthMax
        THEN last' = [NoLast EXCEPT !.op = "apiRelated", !.start = s, !.depth = depth,
                        !.status = "422"]
        ELSE \E res \in find_related_skills(store, s, depth, answered) :
                last' = [NoLast EXCEPT !.op = "apiRelated", !.ok = answered, !.start = s,
                           !.depth = depth, !.queries = 1, !.result = res,
                           !.status = "200"]
    /\ UNCHANGED <<registry, handed, store, fragment, clock, issued, writtenF, writtenE, writes>>

InitRelated == InitGraph(gkf("relatedTo"))
NextRelated ==
    \/ FindRelatedSkills
    \/ GetRelatedSkills
SpecRelated == InitRelated /\ [][NextRelated]_vars

\* Stores with more related skills than the result limit: skill A has `near`
\* relatedTo neighbours, the first of which has `far` neighbours of its own
\* (hop distance 2 from A); every node carries one skillName.
MaxNear == 2
MaxFar == ResultLimit
NodeNames ==
    <<"N01", "N02", "N03", "N04", "N05", "N06", "N07", "N08", "N09", "N10",
      "N11", "N12", "N13", "N14", "N15", "N16", "N17", "N18", "N19", "N20",
      "N21", "N22", "N23", "N24", "N25", "N26", "N27", "N28", "N29", "N30">>
StarAndRing(near, far) ==
    {<<Iri("A"), gkf("relatedTo"), Iri(NodeNames[k])>> : k \in 1..near}
    \cup {<<Iri(NodeNames[1]), gkf("relatedTo"), Iri(NodeNames[k])>> : k \in (near + 1)..(near + far)}
    \cup {<<Iri(NodeNames[k]), gkf("skillName"), Lit(1)>> : k \in 1..(near + far)}

InitRelatedWide ==
    /\ \E near \in 1..MaxNear, far \in 0..MaxFar :
        store = [EmptyStore EXCEPT ![default_graph] = StarAndRing(near, far)]
    /\ fragment = {}
    /\ clock = 0
    /\ issued = [i \in {} |-> 0]
    /\ writtenF = {}
    /\ writtenE = {}
    /\ writes = 0
    /\ last = NoLast
    /\ registry = LinkerRegistry
    /\ handed = [n \in {} |-> NoLinker]
SpecRelatedWide == InitRelatedWide /\ [][NextRelated]_vars

\* ------------------------------------------------------------- jobs, courses, learning paths

Jobs == {"J1", "J2"}
Courses == {"K1", "K2"}

\* LIMIT 3 of the course query of generate_learning_path
CourseLimit == 3

\* A result row's ?difficulty when the OPTIONAL pattern did not match.
Unbound == <<"unbound", 0>>

\* All orders a result without ORDER BY may come back in.
RECURSIVE Orderings(_)
Orderings(S) ==
    IF S = {} THEN {<<>>}
    ELSE UNION {{<<x>> \o q : q \in Orderings(S \ {x})} : x \in S}

\* triplestore.query for a result whose row order matters: the rows, or [] when
\* the store did not answer.
query_list(rows, answered) == IF answered THEN rows ELSE <<>>

\* "<job> gkf:requires ?skill . ?skill gkf:skillName ?skillName":
\* rows (?skill, ?skillName).
required_skills(st, j) == NamedRows(st, Hop(Edges(st, gkf("requires")), {Iri(j)}))

\* "?course a gkf:Course ; gkf:courseName ?courseName ; gkf:teaches <skill>":
\* rows (?course, ?courseName).
teaching_courses(st, skill) ==
    {<<t[1], t[3]>> : t \in
        {x \in Dataset(st) :
            /\ x[2] = gkf("courseName")
            /\ <<x[1], RDF_type, gkf("Course")>> \in Dataset(st)
            /\ <<x[1], gkf("teaches"), skill>> \in Dataset(st)}}

\* "OPTIONAL { ?course gkf:difficulty ?difficulty }": rows
\* (?course, ?courseName, ?difficulty).
with_difficulty(st, rows) ==
    UNION {LET ds == {t[3] : t \in {x \in Dataset(st) :
                                        x[1] = r[1] /\ x[2] = gkf("difficulty")}}
           IN IF ds = {} THEN {<<r[1], r[2], Unbound>>}
              ELSE {<<r[1], r[2], d>> : d \in ds} : r \in rows}

\* "ORDER BY ?difficulty LIMIT 3": the first rows of any order of the rows that
\* ascends in ?difficulty (an unbound value sorts first).
ordered_by_difficulty(rows) ==
    {SubSeq(q, 1, Min(Len(q), CourseLimit)) :
        q \in {o \in Orderings(rows) :
                \A i \in 1..(Len(o) - 1) : o[i][3][2] <= o[i + 1][3][2]}}

\* The course query of generate_learning_path for one skill: the possible results.
course_query(st, skill, answered) ==
    {query_list(q, answered) :
        q \in ordered_by_difficulty(with_difficulty(st, teaching_courses(st, skill)))}

\* A faulty variant: nothing is filtered out.
skills_to_learn_unfiltered(required, current_skills) == required

\* skills_to_learn = [skill for skill in required_skills
\*                    if skill['skill']['value'] not in current_skills]
skills_to_learn(required, current_skills) ==
    SelectSeq(required, LAMBDA row : row[1] \notin current_skills)

\* The one store query that is not answered during a call, if any.
Failures ==
    {<<"none", "">>, <<"required", "">>, <<"prerequisites", "A">>, <<"courses", "A">>}

\* The body of the loop over skills_to_learn for one row: the steps it may
\* append (none when the course query came back empty).
learning_step(st, row, fail) ==
    LET prerequisites ==
            infer_skill_prerequisites(st, row[1][2], fail # <<"prerequisites", row[1][2]>>)
    IN {IF courses # <<>>
        THEN <<[skill |-> row[2], skill_uri |-> row[1],
                prerequisites |-> prerequisites, recommended_courses |-> courses]>>
        ELSE <<>> :
            courses \in course_query(st, row[1], fail # <<"courses", row[1][2]>>)}

RECURSIVE learning_path(_, _, _)
learning_path(st, rows, fail) ==
    IF rows = <<>> THEN {<<>>}
    ELSE {a \o b : a \in learning_step(st, Head(rows), fail),
                   b \in learning_path(st, Tail(rows), fail)}

\* generate_learning_path(target_job_uri, current_skills): the possible results.
generate_learning_path(st, j, current_skills, fail) ==
    UNION {learning_path(st, skills_to_learn(query_list(q, fail # <<"required", "">>),
                                             current_skills), fail) :
            q \in Orderings(required_skills(st, j))}

\* The store queries a call of generate_learning_path issues: the required-skills
\* query, then two per skill to learn.
learning_path_queries(st, j, current_skills, fail) ==
    IF fail = <<"required", "">> THEN 1
    ELSE 1 + 2 * Cardinality({r \in required_skills(st, j) : r[1] \notin current_skills})

\* The query of recommend_courses_for_job: rows (?course, ?courseName, ?skill, ?skillName).
course_skill_rows(st, j) ==
    UNION {{<<c[1], c[2], r[1], r[2]>> : c \in teaching_courses(st, r[1])} :
            r \in required_skills(st, j)}

\* The grouping loop of recommend_courses_for_job over the rows in the order
\* they came back; `recommendations` keeps insertion order.
RECURSIVE group_by_course(_, _)
group_by_course(results, recommendations) ==
    IF results = <<>> THEN recommendations
    ELSE LET result == Head(results)
             taught == [skill_uri |-> result[3], skill_name |-> result[4]]
             at == {i \in 1..Len(recommendations) : recommendations[i].uri = result[1]}
         IN IF at = {}
            THEN group_by_course(Tail(results),
                    Append(recommendations,
                           [uri |-> result[1], name |-> result[2], teaches |-> <<taught>>]))
            ELSE group_by_course(Tail(results),
                    [recommendations EXCEPT ![CHOOSE i \in at : TRUE].teaches =
                                                Append(@, taught)])

\* recommend_courses_for_job(job_uri): the possible results.
recommend_courses_for_job(st, j, answered) ==
    {group_by_course(query_list(q, answered), <<>>) :
        q \in Orderings(course_skill_rows(st, j))}

\* len(skills_to_acquire) / len(end_skill_uris) * 100 as the exact quotient
\* <<numerator, denominator>>.
Percentage(n, d) == <<100 * n, d>>

\* The one unanswered query of analyze_career_path, if any: one of its own two,
\* or one of those generate_learning_path issues.
CareerFailures == Failures \cup {<<"start", "">>, <<"end", "">>}

\* analyze_career_path(start_job_uri, end_job_uri): the possible results.
analyze_career_path(st, start_job, end_job, fail) ==
    LET start_skill_uris ==
            Members(query(required_skills(st, start_job), fail # <<"start", "">>))
        end_skill_uris ==
            Members(query(required_skills(st, end_job), fail # <<"end", "">>))
        common_skills == start_skill_uris \cap end_skill_uris
        skills_to_acquire == end_skill_uris \ start_skill_uris
    IN {[common_skills |-> Cardinality(common_skills),
         skills_to_acquire |-> skills_to_acquire,
         skill_gap_percentage |->
            IF end_skill_uris # {}
            THEN Percentage(Cardinality(skills_to_acquire), Cardinality(end_skill_uris))
            ELSE <<0, 1>>,
         learning_path |-> p] :
            p \in generate_learning_path(st, end_job, start_skill_uris, fail)}

\* Stores for these operations: at most MaxJobEdges requires / teaches edges
\* between the jobs, courses and skills; a prerequisite edge from A to B; and
\* one way in which the nodes are materialised.  Fully materialised, a skill has
\* one skillName and a course has its type, one courseName and a difficulty.
MaxJobEdges == 4

JobEdges ==
    {<<Iri(e[1]), gkf("requires"), Iri(e[2])>> : e \in Jobs \X Skills}
    \cup {<<Iri(e[1]), gkf("teaches"), Iri(e[2])>> : e \in Courses \X Skills}

SkillNode(s, names) == {<<Iri(s), gkf("skillName"), Lit(v)>> : v \in 1..names}
CourseNode(c, typed, names, difficulty) ==
    (IF typed THEN {<<Iri(c), RDF_type, gkf("Course")>>} ELSE {})
    \cup {<<Iri(c), gkf("courseName"), Lit(v)>> : v \in 1..names}
    \cup (IF difficulty > 0 THEN {<<Iri(c), gkf("difficulty"), Lit(difficulty)>>} ELSE {})

Materialisations ==
    {SkillNode("A", a) \cup SkillNode("B", 1) \cup SkillNode("C", 1)
        \cup CourseNode("K1", TRUE, 1, 2) \cup CourseNode("K2", TRUE, 1, 1) : a \in 0..2}
    \cup {SkillNode("A", 1) \cup SkillNode("B", 1) \cup SkillNode("C", 1)
            \cup k1 \cup CourseNode("K2", TRUE, 1, 1) :
                k1 \in {CourseNode("K1", FALSE, 1, 2), CourseNode("K1", TRUE, 0, 2),
                        CourseNode("K1", TRUE, 2, 2), CourseNode("K1", TRUE, 1, 0)}}

InitJobs ==
    /\ \E E \in {X \in SUBSET JobEdges : Cardinality(X) <= MaxJobEdges},
          nodes \in Materialisations :
        store = [EmptyStore EXCEPT ![default_graph] =
                    E \cup nodes \cup {<<Iri("A"), gkf("prerequisite"), Iri("B")>>}]
    /\ fragment = {}
    /\ clock = 0
    /\ issued = [i \in {} |-> 0]
    /\ writtenF = {}
    /\ writtenE = {}
    /\ writes = 0
    /\ last = NoLast
    /\ registry = LinkerRegistry
    /\ handed = [n \in {} |-> NoLinker]

CurrentSkills == SUBSET {Iri("A"), Iri("B")}

GenerateLearningPath ==
    /\ FreshRead
    /\ \E j \in Jobs, current_skills \in CurrentSkills, fail \in Failures :
        \E p \in generate_learning_path(store, j, current_skills, fail) :
            last' = [NoLast EXCEPT !.op = "path", !.ok = (fail = <<"none", "">>),
                       !.job = j, !.current = current_skills, !.fail = fail,
                       !.queries = learning_path_queries(store, j, current_skills, fail),
                       !.list = p]
    /\ UNCHANGED <<registry, handed, store, fragment, clock, issued, writtenF, writtenE, writes>>

RecommendCoursesForJob ==
    /\ FreshRead
    /\ \E j \in Jobs, answered \in BOOLEAN :
        \E r \in recommend_courses_for_job(store, j, answered) :
            last' = [NoLast EXCEPT !.op = "courses", !.ok = answered, !.job = j,
                       !.queries = 1, !.list = r]
    /\ UNCHANGED <<registry, handed, store, fragment, clock, issued, writtenF, writtenE, writes>>

AnalyzeCareerPath ==
    /\ FreshRead
    /\ \E start_job \in Jobs, end_job \in Jobs, fail \in CareerFailures :
        \E r \in analyze_career_path(store, start_job, end_job, fail) :
            last' = [NoLast EXCEPT !.op = "career", !.ok = (fail = <<"none", "">>),
                       !.job = start_job, !.job2 = end_job, !.fail = fail,
                       !.report = r]
    /\ UNCHANGED <<registry, handed, store, fragment, clock, issued, writtenF, writtenE, writes>>

NextJobs ==
    \/ GenerateLearningPath
    \/ RecommendCoursesForJob
    \/ AnalyzeCareerPath
SpecJobs == InitJobs /\ [][NextJobs]_vars

\* The same, over stores in which every skill has exactly one skillName and
\* every course its type and exactly one courseName.
InitJobsNamed ==
    /\ InitJobs
    /\ \A k \in Skills :
        Cardinality({t \in store[default_graph] :
                        t[1] = Iri(k) /\ t[2] = gkf("skillName")}) = 1
    /\ \A c \in Courses :
        /\ <<Iri(c), RDF_type, gkf("Course")>> \in store[default_graph]
        /\ Cardinality({t \in store[default_graph] :
                            t[1] = Iri(c) /\ t[2] = gkf("courseName")}) = 1
SpecJobsNamed == InitJobsNamed /\ [][NextJobs]_vars

\* ------------------------------------------------------------- statistical reasoning

\* demand_score = (job_count * 2) + (course_count * 1); min(demand_score, 100.0)
JobWeight == 2
CourseWeight == 1
DemandMax == 100

\* A variable an OPTIONAL pattern left unbound in a solution.
NoBinding == <<"unbound", 0>>

\* The solutions (?job, ?course) of
\*   OPTIONAL { ?job gkf:requires <skill> } OPTIONAL { ?course gkf:teaches <skill> }
demand_solutions(st, skill) ==
    LET jobs == {t[1] : t \in {x \in Dataset(st) : x[2] = gkf("requires") /\ x[3] = skill}}
        courses == {t[1] : t \in {x \in Dataset(st) : x[2] = gkf("teaches") /\ x[3] = skill}}
    IN (IF jobs = {} THEN {NoBinding} ELSE jobs)
            \X (IF courses = {} THEN {NoBinding} ELSE courses)

\* A faulty variant: COUNT(?x), one per solution that binds the variable.
count_bound(solutions, column) ==
    Cardinality({sol \in solutions : sol[column] # NoBinding})

\* COUNT(DISTINCT ?x) over the solutions: the distinct bound values of a column.
count_distinct(solutions, column) ==
    Cardinality({sol[column] : sol \in solutions} \ {NoBinding})

\* predict_skill_demand(skill_uri); 0.0 when the store does not answer.
predict_skill_demand(st, skill, answered) ==
    IF answered
    THEN LET job_count == count_distinct(demand_solutions(st, skill), 1)
             course_count == count_distinct(demand_solutions(st, skill), 2)
         IN Min(job_count * JobWeight + course_count * CourseWeight, DemandMax)
    ELSE 0

\* The co-occurrence query of recommend_next_skills for one held skill, before
\* ORDER BY and LIMIT: rows (?skill, ?skillName, ?cooccurrence), one per group.
cooccurrence_rows(st, current_skill) ==
    LET jobs == {t[1] : t \in {x \in Dataset(st) :
                                x[2] = gkf("requires") /\ x[3] = current_skill}}
        together(skill) == {j \in jobs : <<j, gkf("requires"), skill>> \in Dataset(st)}
    IN {<<r[1], r[2], Cardinality(together(r[1]))>> :
            r \in {x \in NamedRows(st, Hop(Edges(st, gkf("requires")), jobs)) :
                    x[1] # current_skill}}

\* "ORDER BY DESC(?cooccurrence) LIMIT top_k": the possible results.
cooccurrence_query(st, current_skill, top_k, answered) ==
    {query_list(SubSeq(o, 1, Min(Len(o), top_k)), answered) :
        o \in {q \in Orderings(cooccurrence_rows(st, current_skill)) :
                \A i \in 1..(Len(q) - 1) : q[i][3] >= q[i + 1][3]}}

\* The one store query that is not answered during a call of
\* recommend_next_skills, if any.
NextFailures == {<<"none", "">>, <<"cooccurrence", "A">>, <<"demand", "B">>}

\* The members of a list.
Range(q) == {q[i] : i \in 1..Len(q)}

\* The records the inner loop appends for the rows of one held skill.
records_for(st, current_skill, results, user_skills, fail) ==
    LET kept == SelectSeq(results, LAMBDA result : result[1] \notin Range(user_skills))
    IN [i \in 1..Len(kept) |->
            [skill_uri |-> kept[i][1], skill_name |-> kept[i][2],
             reason |-> current_skill, cooccurrence |-> kept[i][3],
             demand_score |->
                predict_skill_demand(st, kept[i][1], fail # <<"demand", kept[i][1][2]>>)]]

\* The outer loop over user_skills: the possible contents of `recommendations`.
RECURSIVE collected(_, _, _, _, _)
collected(st, todo, user_skills, top_k, fail) ==
    IF todo = <<>> THEN {<<>>}
    ELSE {records_for(st, Head(todo), results, user_skills, fail) \o rest :
            results \in cooccurrence_query(st, Head(todo), top_k,
                                           fail # <<"cooccurrence", Head(todo)[2]>>),
            rest \in collected(st, Tail(todo), user_skills, top_k, fail)}

\* key=lambda x: (x['demand_score'], x['cooccurrence']) compared as tuples.
KeyAtLeast(a, b) ==
    \/ a.demand_score > b.demand_score
    \/ a.demand_score = b.demand_score /\ a.cooccurrence >= b.cooccurrence

\* A faulty variant: sorted(...) without reverse=True.
RECURSIVE sorted_ascending(_)
sorted_ascending(recs) ==
    IF recs = <<>> THEN <<>>
    ELSE LET front == sorted_ascending(SubSeq(recs, 1, Len(recs) - 1))
             x == recs[Len(recs)]
             n == Cardinality({i \in 1..Len(front) : KeyAtLeast(x, front[i])})
         IN SubSeq(front, 1, n) \o <<x>> \o SubSeq(front, n + 1, Len(front))

\* sorted(recommendations, key=..., reverse=True): a stable sort, so records
\* with equal keys keep their order.
RECURSIVE sorted_recommendations(_)
sorted_recommendations(recs) ==
    IF recs = <<>> THEN <<>>
    ELSE LET front == sorted_recommendations(SubSeq(recs, 1, Len(recs) - 1))
             x == recs[Len(recs)]
             n == Cardinality({i \in 1..Len(front) : KeyAtLeast(front[i], x)})
         IN SubSeq(front, 1, n) \o <<x>> \o SubSeq(front, n + 1, Len(front))

\* A faulty variant: every record is kept.
all_recommendations(recs) == recs

\* "Remove duplicates while preserving order": the first record of each skill.
unique_recommendations(recs) ==
    LET first == SelectSeq([i \in 1..Len(recs) |-> i],
                           LAMBDA i : \A k \in 1..(i - 1) :
                                        recs[k].skill_uri # recs[i].skill_uri)
    IN [n \in 1..Len(first) |-> recs[first[n]]]

\* The store queries of one call: one per held skill, one more per record.
next_skills_queries(user_skills, recs) == Len(user_skills) + Len(recs)

\* return unique_recommendations[:top_k], after the sort and the deduplication.
ranked_top_k(recs, top_k) ==
    LET unique == unique_recommendations(sorted_recommendations(recs))
    IN SubSeq(unique, 1, Min(Len(unique), top_k))

\* recommend_next_skills(user_skills, top_k): the possible results, each with
\* the number of store queries issued.
recommend_next_skills(st, user_skills, top_k, fail) ==
    {[result |-> ranked_top_k(recs, top_k),
      queries |-> next_skills_queries(user_skills, recs)] :
        recs \in collected(st, user_skills, user_skills, top_k, fail)}

\* Stores for recommend_next_skills: any requires edges between the jobs and the
\* skills, any teaches edges from K1 to B and C, and skill C with no, one or two
\* skillName values.
MaxTopK == 2

DemandEdges ==
    {<<Iri(e[1]), gkf("requires"), Iri(e[2])>> : e \in Jobs \X Skills}
    \cup {<<Iri("K1"), gkf("teaches"), Iri(s)>> : s \in {"B", "C"}}

InitNextSkills ==
    /\ \E E \in SUBSET DemandEdges, c \in 0..2 :
        store = [EmptyStore EXCEPT ![default_graph] =
                    E \cup SkillNode("A", 1) \cup SkillNode("B", 1) \cup SkillNode("C", c)]
    /\ fragment = {}
    /\ clock = 0
    /\ issued = [i \in {} |-> 0]
    /\ writtenF = {}
    /\ writtenE = {}
    /\ writes = 0
    /\ last = NoLast
    /\ registry = LinkerRegistry
    /\ handed = [n \in {} |-> NoLinker]

\* user_skills: lists of at most two skill URIs, repetitions included.
UserSkillLists == UNION {[1..n -> {Iri(s) : s \in Skills}] : n \in 0..2}

RecommendNextSkills ==
    /\ FreshRead
    /\ \E user_skills \in UserSkillLists, top_k \in 0..MaxTopK, fail \in NextFailures :
        \E r \in recommend_next_skills(store, user_skills, top_k, fail) :
            last' = [NoLast EXCEPT !.op = "next", !.ok = (fail = <<"none", "">>),
                       !.user_skills = user_skills, !.top_k = top_k, !.fail = fail,
                       !.queries = r.queries, !.list = r.result]
    /\ UNCHANGED <<registry, handed, store, fragment, clock, issued, writtenF, writtenE, writes>>

NextNextSkills == RecommendNextSkills
SpecNextSkills == InitNextSkills /\ [][NextNextSkills]_vars

\* self.data_ns[f"Job/{job_id}"], self.data_ns[f"Course/{course_id}"]
job_uri(k) == <<"job", k>>
course_uri(k) == <<"course", k>>

\* Stores for predict_skill_demand: `jobs` jobs require skill A and `courses`
\* courses teach it; the first job also requires B, the first course also
\* teaches C.
MaxJobCount == 60
MaxCourseCount == 10

DemandStore(jobs, courses) ==
    {<<job_uri(k), gkf("requires"), Iri("A")>> : k \in 1..jobs}
    \cup {<<course_uri(k), gkf("teaches"), Iri("A")>> : k \in 1..courses}
    \cup {<<job_uri(k), gkf("requires"), Iri("B")>> : k \in 1..Min(jobs, 1)}
    \cup {<<course_uri(k), gkf("teaches"), Iri("C")>> : k \in 1..Min(courses, 1)}

InitDemand ==
    /\ \E jobs \in 0..MaxJobCount, courses \in 0..MaxCourseCount :
        store = [EmptyStore EXCEPT ![default_graph] = DemandStore(jobs, courses)]
    /\ fragment = {}
    /\ clock = 0
    /\ issued = [i \in {} |-> 0]
    /\ writtenF = {}
    /\ writtenE = {}
    /\ writes = 0
    /\ last = NoLast
    /\ registry = LinkerRegistry
    /\ handed = [n \in {} |-> NoLinker]

PredictSkillDemand ==
    /\ FreshRead
    /\ \E s \in Skills, answered \in BOOLEAN :
        last' = [NoLast EXCEPT !.op = "demand", !.ok = answered, !.skill1 = s,
                   !.queries = 1,
                   !.value = predict_skill_demand(store, Iri(s), answered)]
    /\ UNCHANGED <<registry, handed, store, fragment, clock, issued, writtenF, writtenE, writes>>

NextDemand == PredictSkillDemand
SpecDemand == InitDemand /\ [][NextDemand]_vars

\* similarity = min(shared_count / 10.0, 1.0), in tenths
SimilarityScale == 10

\* The solutions of the UNION of calculate_skill_similarity: one per ?shared in
\* each branch that matches it.
shared_solutions(st, skill1, skill2) ==
    UNION {{<<pred, t[1]>> : t \in {x \in Dataset(st) :
                                        /\ x[2] = pred
                                        /\ x[3] = skill1
                                        /\ <<x[1], pred, skill2>> \in Dataset(st)}} :
            pred \in {gkf("teaches"), gkf("requires")}}

\* calculate_skill_similarity(skill1_uri, skill2_uri), in tenths; shared_count
\* is 0 when the store does not answer.
calculate_skill_similarity(st, skill1, skill2, answered) ==
    LET shared_count ==
            IF answered THEN Cardinality(shared_solutions(st, skill1, skill2)) ELSE 0
    IN Min(shared_count, SimilarityScale)

\* Stores for calculate_skill_similarity: `teach` courses teach both A and B,
\* `require` jobs require both; when `both` holds the first course also requires
\* both; one more course teaches only A and one more job requires only B.
MaxShared == 6

SimilarityStore(teach, require, both) ==
    {<<course_uri(k), gkf("teaches"), Iri(s)>> : k \in 1..teach, s \in {"A", "B"}}
    \cup {<<job_uri(k), gkf("requires"), Iri(s)>> : k \in 1..require, s \in {"A", "B"}}
    \cup (IF both THEN {<<course_uri(1), gkf("requires"), Iri(s)>> : s \in {"A", "B"}}
          ELSE {})
    \cup {<<course_uri(0), gkf("teaches"), Iri("A")>>,
          <<job_uri(0), gkf("requires"), Iri("B")>>}

InitSimilarity ==
    /\ \E teach \in 0..MaxShared, require \in 0..MaxShared, both \in BOOLEAN :
        store = [EmptyStore EXCEPT ![default_graph] =
                    SimilarityStore(teach, require, both /\ teach > 0)]
    /\ fragment = {}
    /\ clock = 0
    /\ issued = [i \in {} |-> 0]
    /\ writtenF = {}
    /\ writtenE = {}
    /\ writes = 0
    /\ last = NoLast
    /\ registry = LinkerRegistry
    /\ handed = [n \in {} |-> NoLinker]

CalculateSkillSimilarity ==
    /\ FreshRead
    /\ \E s1 \in Skills, s2 \in Skills, answered \in BOOLEAN :
        last' = [NoLast EXCEPT !.op = "similarity", !.ok = answered,
                   !.skill1 = s1, !.skill2 = s2, !.queries = 1,
                   !.value = calculate_skill_similarity(store, Iri(s1), Iri(s2), answered)]
    /\ UNCHANGED <<registry, handed, store, fragment, clock, issued, writtenF, writtenE, writes>>

NextSimilarity == CalculateSkillSimilarity
SpecSimilarity == InitSimilarity /\ [][NextSimilarity]_vars

\* ------------------------------------------------------------- store failures

\* GET /api/skills/{skill_id}: "<skill_uri> ?property ?value"; 404 when the
\* result is empty (an unanswered query gives [], through TripleStoreManager.query),
\* otherwise 200 with the rows.
GetSkill ==
    /\ FreshRead
    /\ \E s \in Skills, answered \in BOOLEAN :
        LET results == query({<<t[2], t[3]>> : t \in {x \in Dataset(store) : x[1] = Iri(s)}},
                             answered)
        IN last' = [NoLast EXCEPT !.op = "skill", !.ok = answered, !.skill1 = s,
                      !.queries = 1, !.result = results,
                      !.status = IF results = {} THEN "404" ELSE "200"]
    /\ UNCHANGED <<registry, handed, store, fragment, clock, issued, writtenF, writtenE, writes>>

\* The read operations whose answer to a store failure is at issue, over the
\* fully materialised job stores.
NextSurfacing ==
    \/ InferSkillPrerequisites
    \/ GenerateLearningPath
    \/ PredictSkillDemand
    \/ GetCoursePopularity
    \/ GetSkill
SpecSurfacing == InitJobsNamed /\ [][NextSurfacing]_vars

\* ------------------------------------------------------------- events and frames

\* The keys an interaction_data dict may carry besides 'metadata'.
EventKeys == {"user_id", "entity_uri", "interaction_type"}

\* The events handed over: complete, or with one key missing.
EventKeySets == {EventKeys} \cup {EventKeys \ {k} : k \in EventKeys}

\* The number of add_experiential_knowledge calls of a frame run.
MaxEvents == 1

\* A faulty variant: the Interaction is uploaded a second time after the first
\* upload was accepted.
add_experiential_event_twice(st, keys, u, e, meta, now1, now2, accepted) ==
    IF "user_id" \notin keys \/ "entity_uri" \notin keys
    THEN [store |-> st, success |-> FALSE, uploads |-> <<>>]
    ELSE LET r == add_experiential_knowledge(st, u, e, meta, now1, now2, accepted)
         IN [store |-> r.store,
             success |-> r.success /\ "interaction_type" \in keys,
             uploads |-> IF r.success THEN <<r.graph, r.graph>> ELSE <<r.graph>>]

\* A faulty variant: the graph is uploaded before the event's keys are read.
add_experiential_event_unvalidated(st, keys, u, e, meta, now1, now2, accepted) ==
    LET r == add_experiential_knowledge(st, u, e, meta, now1, now2, accepted)
    IN [store |-> r.store,
        success |-> r.success /\ keys = EventKeys,
        uploads |-> <<r.graph>>]

\* add_experiential_knowledge(interaction_data) with the dict's keys made
\* explicit: interaction_data['user_id'] (line 80) and
\* interaction_data['entity_uri'] (line 92) raise KeyError before the upload,
\* interaction_data['interaction_type'] (line 109) raises it after an accepted
\* upload; every exception is caught and gives False. uploads lists the graphs
\* handed to upload_graph.
add_experiential_event(st, keys, u, e, meta, now1, now2, accepted) ==
    IF "user_id" \notin keys \/ "entity_uri" \notin keys
    THEN [store |-> st, success |-> FALSE, uploads |-> <<>>]
    ELSE LET r == add_experiential_knowledge(st, u, e, meta, now1, now2, accepted)
         IN [store |-> r.store,
             success |-> r.success /\ "interaction_type" \in keys,
             uploads |-> <<r.graph>>]

AddExperientialEvent ==
    /\ writes < MaxEvents
    /\ \E keys \in EventKeySets, u \in Users, e \in Entities,
          meta \in MetaChoices, accepted \in BOOLEAN,
          now2 \in {clock, clock + 1} \cap (0..MaxClock) :
        LET r == add_experiential_event(store, keys, u, e, meta, clock, now2, accepted)
            i == interaction_uri(u, clock)
        IN /\ store' = r.store
           /\ clock' = now2
           /\ writtenE' = IF r.store # store \/ (Len(r.uploads) > 0 /\ accepted)
                          THEN writtenE \cup r.uploads[1] ELSE writtenE
           /\ issued' = IF ~(Len(r.uploads) > 0 /\ accepted) THEN issued
                        ELSE IF i \in DOMAIN issued
                             THEN [issued EXCEPT ![i] = @ + 1]
                             ELSE [x \in DOMAIN issued \cup {i} |->
                                      IF x = i THEN 1 ELSE issued[x]]
           /\ last' = [NoLast EXCEPT !.op = "event", !.ok = r.success, !.entity = e,
                                     !.node = i, !.keys = keys, !.uploads = r.uploads,
                                     !.status = IF accepted THEN "accepted" ELSE "rejected",
                                     !.before = store]
    /\ writes' = writes + 1
    /\ UNCHANGED <<registry, handed, fragment, writtenF>>

\* The graph the frame runs start from: two jobs, two courses, named skills.
FrameGraph ==
    {<<Iri("J1"), gkf("requires"), Iri("A")>>, <<Iri("J1"), gkf("requires"), Iri("B")>>,
     <<Iri("J2"), gkf("requires"), Iri("B")>>, <<Iri("K1"), gkf("teaches"), Iri("A")>>,
     <<Iri("A"), gkf("prerequisite"), Iri("B")>>,
     <<Iri("E1"), RDF_type, gkf("Course")>>}
    \cup SkillNode("A", 1) \cup SkillNode("B", 1) \cup SkillNode("C", 1)
    \cup CourseNode("K1", TRUE, 1, 2) \cup CourseNode("K2", TRUE, 1, 1)

InitFrame ==
    /\ store = [EmptyStore EXCEPT ![default_graph] = FrameGraph]
    /\ fragment = {}
    /\ clock = 0
    /\ issued = [i \in {} |-> 0]
    /\ writtenF = {}
    /\ writtenE = {}
    /\ writes = 0
    /\ last = NoLast
    /\ registry = LinkerRegistry
    /\ handed = [n \in {} |-> NoLinker]

NextFrame ==
    \/ AddExperientialEvent
    \/ QueryFoundational
    \/ QueryExperiential
    \/ QueryIntegrated
    \/ GetCoursePopularity
    \/ CalculateKnowledgeConfidence
    \/ InferSkillPrerequisites
    \/ FindRelatedSkills
    \/ GenerateLearningPath
    \/ RecommendCoursesForJob
    \/ AnalyzeCareerPath
    \/ RecommendNextSkills
    \/ PredictSkillDemand
    \/ CalculateSkillSimilarity
SpecFrame == InitFrame /\ [][NextFrame]_vars

\* ------------------------------------------------------------- long chains

\* A chain of prerequisite edges A -> N01 -> ... -> N<n>, every skill named:
\* one more skill than the LIMIT of find_related_skills at its longest.
MaxChain == ResultLimit + 1
PrerequisiteChain(n) ==
    {<<Iri("A"), gkf("prerequisite"), Iri(NodeNames[1])>> : k \in 1..Min(n, 1)}
    \cup {<<Iri(NodeNames[k]), gkf("prerequisite"), Iri(NodeNames[k + 1])>> : k \in 1..(n - 1)}
    \cup {<<Iri(NodeNames[k]), gkf("skillName"), Lit(1)>> : k \in 1..n}
    \cup SkillNode("A", 1)

InitChain ==
    /\ \E n \in 0..MaxChain :
        store = [EmptyStore EXCEPT ![default_graph] = PrerequisiteChain(n)]
    /\ fragment = {}
    /\ clock = 0
    /\ issued = [i \in {} |-> 0]
    /\ writtenF = {}
    /\ writtenE = {}
    /\ writes = 0
    /\ last = NoLast
    /\ registry = LinkerRegistry
    /\ handed = [n \in {} |-> NoLinker]
NextChain == InferSkillPrerequisites
SpecChain == InitChain /\ [][NextChain]_vars

\* ------------------------------------------------------------- interleaved appends

\* TripleStoreManager.insert_triple(subject, predicate, obj, graph_uri):
\* INSERT DATA into the named graph, or into the default graph without one.
insert_triple(st, t, graph_uri, accepted) ==
    IF accepted THEN [st EXCEPT ![graph_uri] = @ \cup {t}] ELSE st

\* A faulty variant: the two shares are added without either min().
confidence_second_trip_unclamped(st, e, foundational_exists, answered2) ==
    (IF foundational_exists THEN FoundationalWeight ELSE 0)
        + get_course_popularity(st, e, answered2)

\* calculate_knowledge_confidence, first round trip (line 228): whether the
\* foundational graph holds a triple with the entity as its subject.
confidence_first_trip(st, e, answered1) ==
    Cardinality(query_foundational_knowledge(st, <<Iri(e), Var, Var>>, answered1)) > 0

\* calculate_knowledge_confidence, second round trip (line 232) and the blend
\* of lines 235-244, given the first trip's answer.
confidence_second_trip(st, e, foundational_exists, answered2) ==
    ConfidenceBlend(foundational_exists, get_course_popularity(st, e, answered2))

\* The popularity counts the runs start from: none, and just below and at the
\* count where the experiential share reaches its cap.
PendingCounts == {0, ExperientialCap - 2, ExperientialCap - 1, ExperientialCap}

InitInterleave ==
    /\ \E F \in SUBSET FoundationalFacts, n \in PendingCounts :
        store = [EmptyStore EXCEPT ![foundational_graph_uri] = F,
                                   ![experiential_graph_uri] = RecordedInteractions(n)]
    /\ fragment = {}
    /\ clock = 0
    /\ issued = [i \in {} |-> 0]
    /\ writtenF = {}
    /\ writtenE = {}
    /\ writes = 0
    /\ last = NoLast
    /\ registry = LinkerRegistry
    /\ handed = [n \in {} |-> NoLinker]

\* The observed client calls calculate_knowledge_confidence: the first query.
ConfidenceFirstTrip ==
    /\ last.op = "none"
    /\ \E e \in Entities, answered1 \in BOOLEAN :
        last' = [NoLast EXCEPT !.op = "confidence1", !.ok = answered1, !.entity = e,
                   !.queries = 1, !.before = store,
                   !.foundational_exists = confidence_first_trip(store, e, answered1)]
    /\ UNCHANGED <<registry, handed, store, fragment, clock, issued, writtenF, writtenE, writes>>

\* The second query and the return.
ConfidenceSecondTrip ==
    /\ last.op = "confidence1"
    /\ \E answered2 \in BOOLEAN :
        last' = [last EXCEPT !.op = "confidence2", !.ok = last.ok /\ answered2,
                   !.queries = 2, !.after = store,
                   !.value = confidence_second_trip(store, last.entity,
                                                    last.foundational_exists, answered2)]
    /\ UNCHANGED <<registry, handed, store, fragment, clock, issued, writtenF, writtenE, writes>>

\* The number of writes of other clients in a run.
MaxAppends == 1

\* Another client records an Interaction through the Integrator, at any moment
\* of the observed client's call.
ConcurrentAdd ==
    /\ writes < MaxAppends
    /\ last.op # "confidence2"
    /\ \E u \in Users, e \in Entities, accepted \in BOOLEAN :
        store' = add_experiential_knowledge(store, u, e, {}, clock, clock, accepted).store
    /\ writes' = writes + 1
    /\ UNCHANGED <<registry, handed, fragment, clock, issued, writtenF, writtenE, last>>

\* Another client inserts one triple of an Interaction into a graph of its
\* choice with insert_triple (its objects are IRIs).
ConcurrentInsert ==
    /\ writes < MaxAppends
    /\ last.op # "confidence2"
    /\ \E u \in Users, e \in Entities, graph_uri \in GraphNames, accepted \in BOOLEAN :
        \E t \in {<<interaction_uri(u, clock), RDF_type, gkf("Interaction")>>,
                  <<interaction_uri(u, clock), gkf("relatedTo"), Iri(e)>>} :
            store' = insert_triple(store, t, graph_uri, accepted)
    /\ writes' = writes + 1
    /\ UNCHANGED <<registry, handed, fragment, clock, issued, writtenF, writtenE, last>>

NextInterleave ==
    \/ ConfidenceFirstTrip
    \/ ConfidenceSecondTrip
    \/ ConcurrentAdd
    \/ ConcurrentInsert
SpecInterleave == InitInterleave /\ [][NextInterleave]_vars

\* ------------------------------------------------------------- registry runs

\* The number of linker objects constructed in a run.
MaxObjects == 3

RegisterLinkerClass ==
    /\ \E name \in LinkerNames, linker_class \in LinkerClasses :
        /\ registry' = register_linker_class(registry, name, linker_class)
        /\ last' = [NoLast EXCEPT !.op = "register_linker_class", !.name = name]
    /\ UNCHANGED <<handed, store, fragment, clock, issued, writtenF, writtenE, writes>>

SetLinkerConfig ==
    /\ \E name \in LinkerNames, config \in LinkerConfigs :
        /\ registry' = set_linker_config(registry, name, config)
        /\ last' = [NoLast EXCEPT !.op = "set_linker_config", !.name = name]
    /\ UNCHANGED <<handed, store, fragment, clock, issued, writtenF, writtenE, writes>>

GetLinker ==
    /\ \E name \in LinkerNames :
        LET r == get_linker(registry, name)
        IN /\ r.registry.objects <= MaxObjects
           /\ registry' = r.registry
           /\ handed' = IF name \in DOMAIN handed \/ r.linker = NoLinker
                        THEN handed ELSE Put(handed, name, r.linker)
           /\ last' = [NoLast EXCEPT !.op = "get_linker", !.name = name,
                                     !.linker = r.linker]
    /\ UNCHANGED <<store, fragment, clock, issued, writtenF, writtenE, writes>>

UnregisterLinker ==
    /\ \E name \in LinkerNames :
        /\ registry' = unregister_linker(registry, name)
        /\ handed' = Remove(handed, name)
        /\ last' = [NoLast EXCEPT !.op = "unregister_linker", !.name = name]
    /\ UNCHANGED <<store, fragment, clock, issued, writtenF, writtenE, writes>>

NextRegistry ==
    \/ RegisterLinkerClass
    \/ SetLinkerConfig
    \/ GetLinker
    \/ UnregisterLinker
SpecRegistry == Init /\ [][NextRegistry]_vars

\* Entity names and the sources a caller may ask for: the registered names and
\* one no linker is ever registered under.
EntityNames == {"Python", "SQL"}
SourceNames == LinkerNames \cup {"unknown"}
MaxBatch == 2
NameLists == UNION {[1..n -> EntityNames] : n \in 0..MaxBatch}
SourceChoices ==
    {[given |-> FALSE, list |-> <<>>]}
    \cup {[given |-> TRUE, list |-> l] : l \in UNION {[1..n -> SourceNames] : n \in 0..2}}

\* EntityLinker.batch_link_entities(entity_names, sources) on the global
\* registry; every get_linker of the call counts for the history.  A batch
\* is explored from the initial registry and after each unregister_linker.
BatchLinkEntities ==
    /\ last.op # "batch_link_entities"
    /\ \E entity_names \in NameLists, sources \in SourceChoices :
        \E found \in SUBSET (Range(entity_names)
                                \X Range(<<"wikidata">> \o requested(sources))) :
            LET r == batch_link_entities(registry, entity_names, sources,
                                         [n \in {} |-> [s \in {} |-> NoURI]], found)
                first == {n \in DOMAIN r.registry.linkers : n \notin DOMAIN handed}
            IN /\ r.registry.objects <= MaxObjects
               /\ registry' = r.registry
               /\ handed' = [n \in DOMAIN handed \cup first |->
                                IF n \in first THEN r.registry.linkers[n] ELSE handed[n]]
               /\ last' = [NoLast EXCEPT !.op = "batch_link_entities",
                                         !.entity_names = entity_names,
                                         !.sources = sources, !.found = found,
                                         !.results = r.results]
    /\ UNCHANGED <<store, fragment, clock, issued, writtenF, writtenE, writes>>

NextLinking ==
    \/ UnregisterLinker
    \/ BatchLinkEntities
SpecLinking == Init /\ [][NextLinking]_vars

\* ------------------------------------------------------------- inference claims

\* A non-empty path of pred edges leads from a to b (paths longer than the
\* number of skills repeat a node, so that length is enough).
HasPath(st, pred, a, b) ==
    \E k \in 1..Cardinality(Skills) :
        \E path \in [0..k -> Skills] :
            /\ path[0] = a
            /\ path[k] = b
            /\ \A i \in 0..(k - 1) : <<Iri(path[i]), pred, Iri(path[i + 1])>> \in Dataset(st)

\* C8: an answered infer_skill_prerequisites(S) lists exactly the skills that a
\* non-empty prerequisite path leads to from S.
C8_TransitiveClosure ==
    (last.op = "infer" /\ last.ok) =>
        Members(last.result) =
            {Iri(b) : b \in {x \in Skills : HasPath(store, gkf("prerequisite"), last.start, x)}}

\* C9: an answered infer_skill_prerequisites(S) never lists S, never lists a
\* skill twice, and is non-empty when S lies on a prerequisite cycle.
C9_NoStartNoDuplicates ==
    (last.op = "infer" /\ last.ok) =>
        /\ Iri(last.start) \notin Members(last.result)
        /\ Cardinality(last.result) = Cardinality(Members(last.result))
        /\ HasPath(store, gkf("prerequisite"), last.start, last.start)
                => last.result # {}

\* C10: find_related with depth outside [1,5] fails with an invalid-argument
\* error and issues no store query, through the engine as through the route.
C10_DepthValidated ==
    (last.op \in {"related", "apiRelated"} /\ last.depth \notin DepthMin..DepthMax) =>
        /\ last.status \in {"400", "422"}
        /\ last.queries = 0

\* The nodes exactly k hops of E away from the set S.
RECURSIVE HopN(_, _, _)
HopN(E, S, k) == IF k = 0 THEN S ELSE HopN(E, Hop(E, S), k - 1)

\* The hop distance of x from s: the least number of hops (at least one) that
\* leads from s to x, looked for up to `depth` hops.
Distance(E, s, x, depth) ==
    CHOOSE k \in 1..depth :
        /\ x \in HopN(E, {s}, k)
        /\ \A j \in 1..(k - 1) : x \notin HopN(E, {s}, j)

\* C11: an answered find_related_skills(S, depth) returns at most 20 entries,
\* each within depth relatedTo hops of S, and when more than 20 skills are
\* within reach a skill at hop distance k is left out only if every returned
\* skill has hop distance at most k.
C11_ClosestFirst ==
    (last.op \in {"related", "apiRelated"} /\ last.ok /\ last.queries = 1) =>
        LET E == Edges(store, gkf("relatedTo"))
            reach == PathUpTo(E, {Iri(last.start)}, last.depth)
            returned == Members(last.result)
        IN /\ Cardinality(last.result) <= ResultLimit
           /\ returned \subseteq reach
           /\ Cardinality(reach) > ResultLimit =>
                \A x \in reach \ returned : \A y \in returned :
                    Distance(E, Iri(last.start), y, last.depth)
                        <= Distance(E, Iri(last.start), x, last.depth)

\* ------------------------------------------------------------- recommendation claims

\* The skills a job requires, by the store's requires edges.
Requires(st, j) == Hop(Edges(st, gkf("requires")), {Iri(j)})

\* The skills the steps of a learning path are for.
StepSkills(p) == {p[i].skill_uri : i \in 1..Len(p)}

\* C12: generate_learning_path(J, current) emits no step for a skill in current
\* and none for a skill J does not require: the skills of its steps are among
\* requires(J) minus current.
C12_StepsWithinGap ==
    last.op = "path" =>
        StepSkills(last.list) \subseteq Requires(store, last.job) \ last.current

\* A step was emitted while a skill of current is required by the job, named and
\* taught by a materialised course.
C12_Witness ==
    /\ last.op = "path"
    /\ last.ok
    /\ last.list # <<>>
    /\ \E s \in last.current \cap Requires(store, last.job) :
        /\ NamedRows(store, {s}) # {}
        /\ teaching_courses(store, s) # {}

\* C13: an answered generate_learning_path(J, current) emits exactly one step
\* for every skill of requires(J) minus current, a skill no course teaches
\* included, whose step carries an empty course list.
C13_OneStepPerMissingSkill ==
    (last.op = "path" /\ last.ok) =>
        \A s \in Requires(store, last.job) \ last.current :
            /\ Cardinality({i \in 1..Len(last.list) : last.list[i].skill_uri = s}) = 1
            /\ \A i \in 1..Len(last.list) :
                (last.list[i].skill_uri = s
                    /\ \A t \in Dataset(store) : ~(t[2] = gkf("teaches") /\ t[3] = s))
                        => last.list[i].recommended_courses = <<>>

\* The courses of the store that teach a skill the job requires.
MatchingCourses(st, j) ==
    {c \in {Iri(k) : k \in Courses} :
        /\ <<c, RDF_type, gkf("Course")>> \in Dataset(st)
        /\ \E s \in Requires(st, j) : <<c, gkf("teaches"), s>> \in Dataset(st)}

\* C14: an answered recommend_courses_for_job(J) has exactly one entry for each
\* course that teaches a skill J requires and no other entry, and a course's
\* entry lists every skill that J requires and the course teaches.
C14_GroupedByCourse ==
    (last.op = "courses" /\ last.ok) =>
        /\ {last.list[i].uri : i \in 1..Len(last.list)} = MatchingCourses(store, last.job)
        /\ \A i, k \in 1..Len(last.list) : last.list[i].uri = last.list[k].uri => i = k
        /\ \A i \in 1..Len(last.list) :
            {last.list[i].teaches[n].skill_uri : n \in 1..Len(last.list[i].teaches)} =
                {s \in Requires(store, last.job) :
                    <<last.list[i].uri, gkf("teaches"), s>> \in Dataset(store)}

\* ------------------------------------------------------------- career path claims

\* C19: an answered analyze_career_path(start, end) reports common_skills =
\* |requires(start) \cap requires(end)| and skills_to_acquire = requires(end)
\* minus requires(start); skills_to_acquire is disjoint from requires(start), and
\* common_skills + |skills_to_acquire| = |requires(end)|.
C19_SetAlgebra ==
    (last.op = "career" /\ last.ok) =>
        LET start == Requires(store, last.job)
            end == Requires(store, last.job2)
        IN /\ last.report.common_skills = Cardinality(start \cap end)
           /\ last.report.skills_to_acquire = end \ start
           /\ last.report.skills_to_acquire \cap start = {}
           /\ last.report.common_skills + Cardinality(last.report.skills_to_acquire)
                = Cardinality(end)

\* C20: the skill_gap_percentage of an answered analyze_career_path(start, end)
\* is |toAcquire| / |end| * 100 when the end job requires a skill, and 0 when it
\* requires none; it always lies in [0, 100].  (toAcquire = requires(end) minus
\* requires(start); the percentage is the quotient <<numerator, denominator>>.)
C20_GapPercentage ==
    (last.op = "career" /\ last.ok) =>
        LET start == Requires(store, last.job)
            end == Requires(store, last.job2)
            gap == last.report.skill_gap_percentage
        IN /\ gap[2] > 0
           /\ end # {} => gap[1] * Cardinality(end) = 100 * Cardinality(end \ start) * gap[2]
           /\ end = {} => gap[1] = 0
           /\ 0 <= gap[1]
           /\ gap[1] <= 100 * gap[2]

\* C15: the result of recommend_next_skills(user_skills, top_k) contains no
\* skill of user_skills, no skill twice, and at most top_k entries.
C15_NoHeldNoDuplicateAtMostK ==
    last.op = "next" =>
        /\ \A i \in 1..Len(last.list) : last.list[i].skill_uri \notin Range(last.user_skills)
        /\ \A i, k \in 1..Len(last.list) :
            last.list[i].skill_uri = last.list[k].skill_uri => i = k
        /\ Len(last.list) <= last.top_k

\* A skill that co-occurs with two held skills is recommended once, in a
\* result of exactly top_k entries.
C15_Witness ==
    /\ last.op = "next"
    /\ last.ok
    /\ Len(last.user_skills) = 2
    /\ last.user_skills[1] # last.user_skills[2]
    /\ Len(last.list) = last.top_k
    /\ \E i \in 1..Len(last.list) :
        \A k \in 1..2 :
            \E r \in cooccurrence_rows(store, last.user_skills[k]) :
                r[1] = last.list[i].skill_uri

\* C16: the result of recommend_next_skills is ordered by the pair
\* (demand_score, cooccurrence) descending: of two consecutive entries the
\* earlier one's pair is lexicographically at least the later one's.
C16_RankedDescending ==
    last.op = "next" =>
        \A i \in 1..(Len(last.list) - 1) : KeyAtLeast(last.list[i], last.list[i + 1])

\* Two entries were returned, the first with the strictly greater pair.
C16_Witness ==
    /\ last.op = "next"
    /\ last.ok
    /\ Len(last.list) = 2
    /\ ~KeyAtLeast(last.list[2], last.list[1])

\* The distinct subjects that have a pred edge to the skill.
SubjectsOf(st, pred, skill) ==
    {t[1] : t \in {x \in Dataset(st) : x[2] = pred /\ x[3] = skill}}

\* C17: an answered predict_skill_demand(S) is min(2 * jobCount + courseCount,
\* 100), jobCount the number of distinct jobs requiring S and courseCount the
\* number of distinct courses teaching S, each counted on its own: with no
\* course it is min(2 * jobCount, 100), with no job min(courseCount, 100); 60
\* jobs and 10 courses give 100; the result is always within [0, 100].
C17_DemandScore ==
    last.op = "demand" =>
        /\ last.value \in 0..100
        /\ last.ok =>
            LET jobCount == Cardinality(SubjectsOf(store, gkf("requires"), Iri(last.skill1)))
                courseCount == Cardinality(SubjectsOf(store, gkf("teaches"), Iri(last.skill1)))
            IN /\ last.value = Min(2 * jobCount + courseCount, 100)
               /\ courseCount = 0 => last.value = Min(2 * jobCount, 100)
               /\ jobCount = 0 => last.value = Min(courseCount, 100)
               /\ (jobCount = 60 /\ courseCount = 10) => last.value = 100

\* The clamp is engaged: 60 jobs and 10 courses give 100.
C17_Witness ==
    /\ last.op = "demand"
    /\ last.ok
    /\ Cardinality(SubjectsOf(store, gkf("requires"), Iri(last.skill1))) = 60
    /\ Cardinality(SubjectsOf(store, gkf("teaches"), Iri(last.skill1))) = 10
    /\ last.value = 100

\* C18: an answered calculate_skill_similarity(a, b) is min(n / 10, 1.0), n the
\* number of entities that teach both a and b or require both a and b; it lies
\* in [0, 1] and is the same for (a, b) and (b, a).  (Values in tenths.)
C18_SharedEntities ==
    (last.op = "similarity" /\ last.ok) =>
        LET a == Iri(last.skill1)
            b == Iri(last.skill2)
            n == Cardinality(
                    (SubjectsOf(store, gkf("teaches"), a) \cap SubjectsOf(store, gkf("teaches"), b))
                    \cup (SubjectsOf(store, gkf("requires"), a)
                            \cap SubjectsOf(store, gkf("requires"), b)))
        IN /\ last.value = Min(n, 10)
           /\ last.value \in 0..10
           /\ last.value = calculate_skill_similarity(store, b, a, TRUE)

\* ------------------------------------------------------------- contract claims

\* C21: the learning_path of an answered analyze_career_path(start, end) is a
\* result of generate_learning_path(end, requires(start)) on the same store, and
\* the skills with a step in it are exactly the reported skills_to_acquire.
C21_PathMatchesGap ==
    (last.op = "career" /\ last.ok) =>
        /\ last.report.learning_path \in
                generate_learning_path(store, last.job2, Requires(store, last.job),
                                       <<"none", "">>)
        /\ StepSkills(last.report.learning_path) = last.report.skills_to_acquire

\* C22: after a successful add_foundational_knowledge(fragment), every node that
\* is the subject of a triple of the fragment has the triple
\* (subject, rdf:type, gkf:FoundationalKnowledge) in the foundational partition.
C22_EverySubjectTagged ==
    (last.op = "addF" /\ last.ok) =>
        \A s \in {t[1] : t \in last.input} :
            <<s, RDF_type, gkf("FoundationalKnowledge")>> \in store[foundational_graph_uri]

\* C23: when a store call failed during infer_skill_prerequisites,
\* generate_learning_path, predict_skill_demand, get_course_popularity or the
\* API skill lookup, the caller is given a failure, never a normal result (an
\* empty list, 0, 0.0) and never a 404.
C23_FailureSurfaced ==
    (last.op \in {"infer", "path", "demand", "popularity", "skill"} /\ ~last.ok) =>
        last.status \notin {"ok", "200", "404"}

\* C24: a step of any read operation (the ten the ReasoningEngine and the
\* Integrator offer, and the partition queries) leaves the store as it was, and
\* add_experiential_knowledge with an event that carries user_id and entity_uri
\* hands exactly one graph to upload_graph, the new Interaction's, so that the
\* store afterwards is the store before plus at most that graph.
C24_ReadsWriteNothing ==
    [][/\ last'.op \in ReadOps => store' = store
       /\ (last'.op = "event" /\ {"user_id", "entity_uri"} \subseteq last'.keys) =>
            /\ Len(last'.uploads) = 1
            /\ \A t \in last'.uploads[1] : t[1] = last'.node
            /\ \A g \in GraphNames : store[g] \subseteq store'[g]
            /\ (UNION {store'[g] : g \in GraphNames})
                    \ (UNION {store[g] : g \in GraphNames}) \subseteq last'.uploads[1]]_vars

\* A read operation has run on a store that holds an uploaded Interaction.
C24_Witness ==
    /\ last.op = "career"
    /\ writtenE # {}
    /\ \E g \in GraphNames : writtenE \subseteq store[g]

\* C28: add_experiential_knowledge with an event that lacks user_id or
\* entity_uri, or whose upload the store rejects, returns False, and the store
\* (both partitions and the default graph) is exactly what it was before the call.
C28_FailedEventChangesNothing ==
    (/\ last.op = "event"
     /\ \/ "user_id" \notin last.keys
        \/ "entity_uri" \notin last.keys
        \/ last.status = "rejected") =>
        /\ ~last.ok
        /\ store = last.before

\* An event without user_id was handed over while the store accepted uploads.
C28_Witness ==
    /\ last.op = "event"
    /\ "user_id" \notin last.keys
    /\ last.status = "accepted"
    /\ ~last.ok

\* C25: the result of the closure traversal infer_skill_prerequisites has at
\* most as many rows as the traversals' fixed cap (the LIMIT of
\* find_related_skills), however long the prerequisite chains of the graph are.
C25_BoundedTraversal ==
    last.op = "infer" =>
        /\ last.queries = 1
        /\ Cardinality(last.result) <= ResultLimit

\* The skills that are not held and that some job requires together with a
\* held skill.
EligibleCandidates(st, user_skills) ==
    {s \in {Iri(k) : k \in Skills} \ Range(user_skills) :
        \E h \in Range(user_skills), t \in Dataset(st) :
            /\ t[2] = gkf("requires")
            /\ t[3] = h
            /\ <<t[1], gkf("requires"), s>> \in Dataset(st)}

\* C26: an answered recommend_next_skills(user_skills, top_k) returns
\* min(top_k, number of eligible candidates) entries, and an eligible candidate
\* is absent only when top_k entries were returned and none of them has a
\* lower demand score than the candidate.
C26_TopKOfEligible ==
    (last.op = "next" /\ last.ok) =>
        LET eligible == EligibleCandidates(store, last.user_skills)
            returned == {last.list[i].skill_uri : i \in 1..Len(last.list)}
        IN /\ Len(last.list) = Min(last.top_k, Cardinality(eligible))
           /\ \A s \in eligible \ returned :
                /\ Len(last.list) = last.top_k
                /\ \A i \in 1..Len(last.list) :
                    last.list[i].demand_score >= predict_skill_demand(store, s, TRUE)

\* The confidence of an entity computed in one piece on a store, both queries
\* answered.
AtomicConfidence(st, e) == calculate_knowledge_confidence(st, e, TRUE, TRUE)

\* C27: when Interactions are appended between the two round trips of an
\* answered calculate_knowledge_confidence(E), the returned value is within
\* [0, 1] and lies between the confidence of E on the store as it was when the
\* call started and on the store as it is when the call returns.
C27_BetweenStartAndEnd ==
    last.op = "confidence2" =>
        /\ last.value \in 0..ConfidenceMax
        /\ last.ok =>
            LET c0 == AtomicConfidence(last.before, last.entity)
                c1 == AtomicConfidence(last.after, last.entity)
            IN /\ Min(c0, c1) <= last.value
               /\ last.value <= IF c0 >= c1 THEN c0 ELSE c1

\* An append between the two round trips raised the entity's confidence, and
\* the call returned.
C27_Witness ==
    /\ last.op = "confidence2"
    /\ last.ok
    /\ last.before # last.after
    /\ AtomicConfidence(last.before, last.entity)
            < AtomicConfidence(last.after, last.entity)
    /\ last.value > 0

\* C29: over any sequence of register_linker_class, set_linker_config,
\* get_linker and unregister_linker calls: a get_linker(name) that is not the
\* first since the name was last unregistered returns the instance the first
\* one returned and constructs nothing; the first one on a registered name
\* constructs exactly one instance, of the registered class; get_linker of an
\* unregistered name returns None; after unregister_linker(name),
\* has_linker(name) is false.
C29_LazyAndCached ==
    [][/\ last'.op = "get_linker" =>
            LET name == last'.name
            IN /\ name \in DOMAIN handed =>
                    /\ last'.linker = handed[name]
                    /\ registry'.objects = registry.objects
               /\ (name \notin DOMAIN handed /\ name \in DOMAIN registry.linker_classes) =>
                    /\ registry'.objects = registry.objects + 1
                    /\ last'.linker.id = registry'.objects
                    /\ last'.linker.class = registry.linker_classes[name]
               /\ name \notin DOMAIN registry.linker_classes => last'.linker = NoLinker
       /\ last'.op = "unregister_linker" => ~has_linker(registry', last'.name)
       /\ last'.op \in {"register_linker_class", "set_linker_config"} =>
            registry'.objects = registry.objects]_vars

\* A second get_linker of a name returned the instance of the first, after
\* another class had been registered under the name in between.
C29_Witness ==
    /\ last.op = "get_linker"
    /\ last.name \in DOMAIN handed
    /\ last.linker = handed[last.name]
    /\ registry.linker_classes[last.name] # last.linker.class
    /\ registry.objects = 1

\* C30: batch_link_entities(entity_names, sources) returns one entry for every
\* name, and each entry has a key for every requested source (the default
\* sources when none are given) whose value is the URI the source's linker
\* found, or None when no linker is registered under the source or its lookup
\* found nothing or failed, whatever happened for the other names and sources.
C30_EveryNameEverySource ==
    last.op = "batch_link_entities" =>
        /\ DOMAIN last.results = Range(last.entity_names)
        /\ \A n \in Range(last.entity_names), s \in Range(requested(last.sources)) :
            /\ s \in DOMAIN last.results[n]
            /\ last.results[n][s] =
                IF has_linker(registry, s) /\ <<n, s>> \in last.found
                THEN <<registry.linkers[s].class, n>>
                ELSE NoURI

\* Two names were linked against a source with a linker and a source without
\* one; the lookup of the first name failed, that of the second succeeded.
C30_Witness ==
    /\ last.op = "batch_link_entities"
    /\ Len(last.entity_names) = 2
    /\ "unknown" \in Range(last.sources.list)
    /\ "dbpedia" \in Range(last.sources.list)
    /\ has_linker(registry, "dbpedia")
    /\ last.results[last.entity_names[1]]["dbpedia"] = NoURI
    /\ last.results[last.entity_names[2]]["dbpedia"] # NoURI
    /\ last.results[last.entity_names[2]]["unknown"] = NoURI

====
